---- MODULE Spec2Model ----
(***************************************************************************)
(* Signal-broadcast server of dm_vn: the connection registry kept by       *)
(* WebSocketServer.handler, the fan-out of WebSocketServer.broadcast_signal,*)
(* the cross-thread submission of ServerEngine.broadcast_signal_sync and    *)
(* console_listener, the worker thread and loop of ServerEngine.start and   *)
(* stop, and main of run_server.                                            *)
(***************************************************************************)
EXTENDS Integers, Sequences, FiniteSets, TLC

\* ---------------------------------------------------------------- bounds
NumConns == 2
MaxBroadcasts == 1
MaxUnregisterCalls == 4
MaxStarts == 2

Conns == 1..NumConns
Bids == 1..MaxBroadcasts
\* the worker threads start() may create, each with the loop it creates
Workers == 1..MaxStarts
\* two submissions, the first and the second to reach the loop
Pair == {1, 2}
\* Python's None, for async_loop and async_thread
None == 0

\* ---------------------------------------------------------------- signals
StrVal(s) == [t |-> "str", s |-> s]
IntVal(n) == [t |-> "int", n |-> n]
\* a float with two decimals, held in hundredths: 15.80 is FloatVal(1580)
FloatVal(h) == [t |-> "float", h |-> h]

\* run_server.py: the canned signal of the test_signal command
test_signal ==
  << <<"action", StrVal("BUY")>>, <<"symbol", StrVal("000001.SZ")>>,
     <<"price", FloatVal(1580)>>, <<"volume", IntVal(100)>>,
     <<"timestamp", StrVal("2025-09-08 14:30:00")>>,
     <<"strategy_id", StrVal("test_strategy_001")>>,
     <<"signal_id", StrVal("test_signal_001")>> >>

\* websocket_server.py: the signal of main_test
main_test_signal ==
  << <<"action", StrVal("BUY")>>, <<"symbol", StrVal("000001.SH")>>,
     <<"price", FloatVal(320050)>>, <<"volume", IntVal(100)>>,
     <<"timestamp", StrVal("2025-09-08 10:00:00")>>,
     <<"strategy_id", StrVal("test_strategy_001")>> >>

Signals == {test_signal, main_test_signal}

\* the signal of the b-th submission: the two signals take turns
SignalOf(b) == IF b % 2 = 1 THEN test_signal ELSE main_test_signal

\* ---------------------------------------------------------------- json
RECURSIVE Digits(_)
Digits(n) == IF n < 10 THEN <<n>> ELSE Digits(n \div 10) \o <<n % 10>>

RECURSIVE Number(_)
Number(ds) == IF Len(ds) = 0 THEN 0
              ELSE 10 * Number(SubSeq(ds, 1, Len(ds) - 1)) + ds[Len(ds)]

\* repr of a float: integer part, point, fraction without trailing zeros
\* (but at least one digit): 15.80 -> 15.8, 3200.50 -> 3200.5
FracDigits(h) == IF h % 10 = 0 THEN <<(h % 100) \div 10>>
                 ELSE <<(h % 100) \div 10, h % 10>>

Punct(s) == [t |-> "punct", s |-> s]

DumpValue(v) ==
  CASE v.t = "str" -> [t |-> "string", s |-> v.s]
    [] v.t = "int" -> [t |-> "number", ip |-> Digits(v.n), fp |-> <<>>]
    [] v.t = "float" -> [t |-> "number", ip |-> Digits(v.h \div 100),
                         fp |-> FracDigits(v.h)]

RECURSIVE DumpItems(_, _)
DumpItems(d, i) ==
  IF i > Len(d) THEN <<>>
  ELSE << [t |-> "string", s |-> d[i][1]], Punct(":"), DumpValue(d[i][2]) >>
       \o (IF i < Len(d) THEN <<Punct(",")>> ELSE <<>>)
       \o DumpItems(d, i + 1)

\* an encoder that loses the last field
JsonDumpsDropsLast(d) ==
  <<Punct("{")>> \o DumpItems(SubSeq(d, 1, Len(d) - 1), 1) \o <<Punct("}")>>

\* json.dumps(signal_data): keys in insertion order
JsonDumps(d) == <<Punct("{")>> \o DumpItems(d, 1) \o <<Punct("}")>>

LoadValue(tok) ==
  IF tok.t = "string" THEN StrVal(tok.s)
  ELSE IF Len(tok.fp) = 0 THEN IntVal(Number(tok.ip))
  ELSE FloatVal(100 * Number(tok.ip)
             + (IF Len(tok.fp) = 1 THEN 10 * tok.fp[1] ELSE Number(tok.fp)))

EmptyDict == [k \in {} |-> 0]

RECURSIVE LoadItems(_, _, _)
LoadItems(m, i, acc) ==
  IF i + 2 > Len(m) THEN acc
  ELSE LoadItems(m, i + 4, (m[i].s :> LoadValue(m[i + 2])) @@ acc)

\* json.loads(message): a dict, which compares without regard to order
JsonLoads(m) == LoadItems(m, 2, EmptyDict)

RECURSIVE AsDictFrom(_, _, _)
AsDictFrom(d, i, acc) ==
  IF i > Len(d) THEN acc
  ELSE AsDictFrom(d, i + 1, (d[i][1] :> d[i][2]) @@ acc)

\* the content of a signal as a dict value
AsDict(d) == AsDictFrom(d, 1, EmptyDict)

\* ---------------------------------------------------------------- state
VARIABLES
  connState,          \* each connection: "New" before it is accepted, "Active"
                      \* while open, "Closed" once its close has begun (closing
                      \* or closed: a send on it fails, its iteration ends)
  hpc,                \* where each connection's handler coroutine is
  connected_clients,  \* WebSocketServer.connected_clients
  inbox,              \* frames each client has received, oldest first
  bpc,                \* where each broadcast_signal coroutine is
  bSignal,            \* its signal_data
  bMessage,           \* its message
  bSnapshot,          \* the members its for loop iterated over
  tasks,              \* its send tasks, by connection
  wOutcome,           \* the thread that submitted it: its future.result
  wReleasedAt,        \* where the coroutine was when that thread was released
  uCalls,             \* results of the removals applied so far
  bLoop,              \* the loop each broadcast was scheduled on
  active,             \* ServerEngine.active
  async_loop,         \* ServerEngine.async_loop: None or a worker's loop
  async_thread,       \* ServerEngine.async_thread: None or the last worker
  wpc,                \* where each worker thread (run_async_in_thread) is
  mpc,                \* where main() of run_server is
  cpc,                \* where console_listener is
  stop_event,         \* the stop_event of main()
  cReport,            \* the last thing console_listener printed
  stopCalls           \* calls of engine.stop() made by main()

vars == << connState, hpc, connected_clients, inbox, bpc, bSignal, bMessage,
           bSnapshot, tasks, wOutcome, wReleasedAt, uCalls, bLoop,
           active, async_loop, async_thread, wpc,
           mpc, cpc, stop_event, cReport, stopCalls >>

connVars == << connState, hpc, connected_clients >>
bcastVars == << bpc, bSignal, bMessage, bSnapshot, tasks >>
callerVars == << wOutcome, wReleasedAt >>
engineVars == << active, async_loop, async_thread, wpc >>
consoleVars == << mpc, cpc, stop_event, cReport, stopCalls >>
hostVars == << engineVars, consoleVars >>

NoSignal == <<>>
NoTasks == [c \in Conns |-> "none"]

\* a removal that forgets to remove
SetRemoveKeeps(s, x) == [set |-> s, err |-> "none"]

\* set.remove(x): raises KeyError when x is not a member
SetRemove(s, x) ==
  IF x \in s THEN [set |-> s \ {x}, err |-> "none"]
  ELSE [set |-> s, err |-> "KeyError"]


\* the engine once start() has brought the server up, as main() of
\* run_server leaves it at line 92: one worker in run_forever, the console
\* thread reading, the main thread in its wait loop
HostUp ==
  /\ active = TRUE
  /\ async_loop = 1
  /\ async_thread = 1
  /\ wpc = [w \in Workers |-> IF w = 1 THEN "running" ELSE "none"]
  /\ mpc = "waiting"
  /\ cpc = "reading"
  /\ stop_event = FALSE
  /\ cReport = "none"
  /\ stopCalls = 0

Init ==
  /\ connState = [c \in Conns |-> "New"]
  /\ hpc = [c \in Conns |-> "idle"]
  /\ connected_clients = {}
  /\ inbox = [c \in Conns |-> <<>>]
  /\ bpc = [b \in Bids |-> "none"]
  /\ bSignal = [b \in Bids |-> NoSignal]
  /\ bMessage = [b \in Bids |-> <<>>]
  /\ bSnapshot = [b \in Bids |-> {}]
  /\ tasks = [b \in Bids |-> NoTasks]
  /\ wOutcome = [b \in Bids |-> "none"]
  /\ wReleasedAt = [b \in Bids |-> "none"]
  /\ uCalls = <<>>
  /\ bLoop = [b \in Bids |-> None]
  /\ HostUp

TypeOK ==
  /\ connState \in [Conns -> {"New", "Active", "Closed"}]
  /\ hpc \in [Conns -> {"idle", "serving", "done", "KeyError"}]
  /\ connected_clients \subseteq Conns
  /\ bpc \in [Bids -> {"none", "scheduled", "gathering", "returned", "raised",
                      "cancelled"}]
  /\ \A b \in Bids : bSignal[b] \in Signals \cup {NoSignal}
  /\ bSnapshot \in [Bids -> SUBSET Conns]
  /\ tasks \in [Bids -> [Conns -> {"none", "pending", "ok", "failed"}]]
  /\ wOutcome \in [Bids -> {"none", "waiting", "ok", "timeout", "error",
                           "cancelled"}]
  /\ wReleasedAt \in [Bids -> {"none", "scheduled", "gathering", "finished"}]
  /\ bLoop \in [Bids -> Workers \cup {None}]
  /\ active \in BOOLEAN
  /\ async_loop \in Workers \cup {None}
  /\ async_thread \in Workers \cup {None}
  /\ wpc \in [Workers -> {"none", "created", "binding", "running", "failed"}]
  /\ mpc \in {"init", "starting", "waiting", "finally", "stopped", "done"}
  /\ cpc \in {"unstarted", "reading", "submitting", "waiting", "ended", "crashed"}
  /\ stop_event \in BOOLEAN
  /\ cReport \in {"none", "exit", "help", "unknown", "not_ready", "success",
                 "timeout", "error"}
  /\ stopCalls \in Nat

\* ---------------------------------------------------------------- handler
\* handler, line 38: the accepted connection is added to the set
HandlerConnect(c) ==
  /\ connState[c] = "New"
  /\ hpc[c] = "idle"
  /\ connState' = [connState EXCEPT ![c] = "Active"]
  /\ connected_clients' = connected_clients \cup {c}
  /\ hpc' = [hpc EXCEPT ![c] = "serving"]
  /\ UNCHANGED << inbox, bcastVars, callerVars, uCalls, bLoop, hostVars >>

\* an open connection stops being open: the peer closes it, the transport
\* is reset, or the server closes it after its handler has ended
ConnClosed(c) ==
  /\ connState[c] = "Active"
  /\ connState' = [connState EXCEPT ![c] = "Closed"]
  /\ UNCHANGED << hpc, connected_clients, inbox, bcastVars, callerVars, uCalls, bLoop, hostVars >>

\* the ways out of the try block of handler
ExitKinds == {"normal", "closed", "exception"}

\* "normal": the async for ends; "closed": ConnectionClosed is caught;
\* both need the connection closed.  "exception": anything else propagates.
CanExit(c, kind) ==
  \/ kind \in {"normal", "closed"} /\ connState[c] = "Closed"
  \/ kind = "exception"

\* a handler whose removal sits in the except clause and not in a finally
HandlerExitNoFinally(c, kind) ==
  /\ hpc[c] = "serving"
  /\ CanExit(c, kind)
  /\ connected_clients' = IF kind = "exception" THEN connected_clients
                          ELSE connected_clients \ {c}
  /\ hpc' = [hpc EXCEPT ![c] = "done"]
  /\ UNCHANGED << connState, inbox, bcastVars, callerVars, uCalls, bLoop, hostVars >>

\* handler, lines 49-54: whatever the way out, the finally block removes
HandlerExit(c, kind) ==
  /\ hpc[c] = "serving"
  /\ CanExit(c, kind)
  /\ LET r == SetRemove(connected_clients, c)
     IN /\ connected_clients' = r.set
        /\ hpc' = [hpc EXCEPT ![c] = IF r.err = "none" THEN "done" ELSE r.err]
  /\ UNCHANGED << connState, inbox, bcastVars, callerVars, uCalls, bLoop, hostVars >>

\* ---------------------------------------------------------------- broadcast
\* broadcast_signal, lines 62-64 and 79: with no client it returns at once,
\* otherwise it awaits the gather
BeginOutcomeRaises(members) == IF members = {} THEN "raised" ELSE "gathering"

BeginOutcome(members) == IF members = {} THEN "returned" ELSE "gathering"

\* a fan-out that misses one member
CreateTasksSkipsOne(members) ==
  [c \in Conns |-> IF c \in members /\ \E d \in members : d < c
                   THEN "pending" ELSE "none"]

\* broadcast_signal, lines 71-75: one send task per member, none awaited yet
CreateTasks(members) ==
  [c \in Conns |-> IF c \in members THEN "pending" ELSE "none"]

\* client.send(message): succeeds on an open connection only
SendResult(state) == IF state = "Active" THEN "ok" ELSE "failed"

\* asyncio.gather(*tasks) without return_exceptions: the first exception of
\* a task is raised in the awaiting coroutine; it returns once all are done
GatherOutcome(ts) ==
  IF \E c \in Conns : ts[c] = "failed" THEN "raise"
  ELSE IF \A c \in Conns : ts[c] \in {"none", "ok"} THEN "return"
  ELSE "wait"

\* a gather that cancels the tasks still pending when one has failed
TasksAfterGatherCancels(ts) ==
  [c \in Conns |-> IF ts[c] = "pending" /\ (\E d \in Conns : ts[d] = "failed")
                   THEN "cancelled" ELSE ts[c]]

\* gather leaves the other tasks scheduled when it raises
TasksAfterGather(ts) == ts

Targets(b) == {c \in Conns : tasks[b][c] # "none"}
Sent(b) == {c \in Conns : tasks[b][c] = "ok"}
Failed(b) == {c \in Conns : tasks[b][c] = "failed"}
Pending(b) == {c \in Conns : tasks[b][c] = "pending"}
Finished(b) == bpc[b] \in {"returned", "raised"}

\* broadcast_signal, lines 62-79, up to the await
BroadcastBegin(b) ==
  /\ bpc[b] = "scheduled"
  /\ IF BeginOutcome(connected_clients) # "gathering"
     THEN /\ bpc' = [bpc EXCEPT ![b] = BeginOutcome(connected_clients)]
          /\ UNCHANGED << bMessage, bSnapshot, tasks >>
     ELSE /\ bMessage' = [bMessage EXCEPT ![b] = JsonDumps(bSignal[b])]
          /\ bSnapshot' = [bSnapshot EXCEPT ![b] = connected_clients]
          /\ tasks' = [tasks EXCEPT ![b] = CreateTasks(connected_clients)]
          /\ bpc' = [bpc EXCEPT ![b] = "gathering"]
  /\ UNCHANGED << connVars, inbox, bSignal, callerVars, uCalls, bLoop, hostVars >>

\* a send task that takes a connection whose send failed out of the set
SendRunUnregisters(b, c) ==
  /\ tasks[b][c] = "pending"
  /\ connState[c] # "New"
  /\ tasks' = [tasks EXCEPT ![b][c] = SendResult(connState[c])]
  /\ inbox' = IF SendResult(connState[c]) = "ok"
              THEN [inbox EXCEPT ![c] = Append(@, [b |-> b, msg |-> bMessage[b]])]
              ELSE inbox
  /\ connected_clients' = IF SendResult(connState[c]) = "ok"
                          THEN connected_clients
                          ELSE connected_clients \ {c}
  /\ UNCHANGED << connState, hpc, bpc, bSignal, bMessage, bSnapshot, callerVars, uCalls, bLoop, hostVars >>

\* one send task runs: client.send(message)
SendRun(b, c) ==
  /\ tasks[b][c] = "pending"
  /\ connState[c] # "New"
  /\ tasks' = [tasks EXCEPT ![b][c] = SendResult(connState[c])]
  /\ inbox' = IF SendResult(connState[c]) = "ok"
              THEN [inbox EXCEPT ![c] = Append(@, [b |-> b, msg |-> bMessage[b]])]
              ELSE inbox
  /\ UNCHANGED << connVars, bpc, bSignal, bMessage, bSnapshot, callerVars, uCalls, bLoop, hostVars >>

\* broadcast_signal, lines 79-80: the await of gather ends
BroadcastResume(b) ==
  /\ bpc[b] = "gathering"
  /\ GatherOutcome(tasks[b]) # "wait"
  /\ bpc' = [bpc EXCEPT ![b] =
               IF GatherOutcome(tasks[b]) = "raise" THEN "raised" ELSE "returned"]
  /\ tasks' = [tasks EXCEPT ![b] = TasksAfterGather(@)]
  /\ UNCHANGED << connVars, inbox, bSignal, bMessage, bSnapshot, callerVars, uCalls, bLoop, hostVars >>

\* ---------------------------------------------------------------- callers
\* a wait that cancels the future it gives up on
TaskAfterTimeoutCancels(pc) == "cancelled"

\* future.result(timeout=5.0) raising on timeout leaves the task as it is
TaskAfterTimeout(pc) == pc

\* and leaves its send tasks as they are
SendsAfterTimeout(ts) == ts

\* a bridge that takes no submission once a call has timed out
SubmitRefusedAfterTimeout ==
  /\ \A a \in DOMAIN bpc : wOutcome[a] # "timeout"
  /\ \E b \in DOMAIN bpc :
       /\ bpc[b] = "none"
       /\ \A a \in DOMAIN bpc : a < b => bpc[a] # "none"
       /\ bpc' = [bpc EXCEPT ![b] = "scheduled"]
       /\ bSignal' = [bSignal EXCEPT ![b] = SignalOf(b)]
       /\ wOutcome' = [wOutcome EXCEPT ![b] = "waiting"]
       /\ bLoop' = [bLoop EXCEPT ![b] = async_loop]
  /\ UNCHANGED << connVars, inbox, bMessage, bSnapshot, tasks, wReleasedAt, uCalls, hostVars >>

\* a submission that takes the members and creates the send tasks itself,
\* on the thread that submits
ScheduleInline ==
  /\ \E b \in DOMAIN bpc :
       /\ bpc[b] = "none"
       /\ \A a \in DOMAIN bpc : a < b => bpc[a] # "none"
       /\ bpc' = [bpc EXCEPT ![b] = BeginOutcome(connected_clients)]
       /\ bSignal' = [bSignal EXCEPT ![b] = SignalOf(b)]
       /\ bMessage' = [bMessage EXCEPT ![b] = JsonDumps(SignalOf(b))]
       /\ bSnapshot' = [bSnapshot EXCEPT ![b] = connected_clients]
       /\ tasks' = [tasks EXCEPT ![b] = CreateTasks(connected_clients)]
       /\ wOutcome' = [wOutcome EXCEPT ![b] = "waiting"]
       /\ bLoop' = [bLoop EXCEPT ![b] = async_loop]
  /\ UNCHANGED << connVars, inbox, wReleasedAt, uCalls, engineVars >>

\* run_coroutine_threadsafe(engine.broadcast_signal(signal), async_loop):
\* the coroutine is handed to the loop and a future for it is returned
Schedule ==
  /\ \E b \in DOMAIN bpc :
       /\ bpc[b] = "none"
       /\ \A a \in DOMAIN bpc : a < b => bpc[a] # "none"
       /\ bpc' = [bpc EXCEPT ![b] = "scheduled"]
       /\ bSignal' = [bSignal EXCEPT ![b] = SignalOf(b)]
       /\ wOutcome' = [wOutcome EXCEPT ![b] = "waiting"]
       /\ bLoop' = [bLoop EXCEPT ![b] = async_loop]
  /\ UNCHANGED << connVars, inbox, bMessage, bSnapshot, tasks, wReleasedAt, uCalls, engineVars >>

\* a thread schedules the coroutine and starts to wait for its future
Submit == Schedule /\ UNCHANGED consoleVars

\* future.result returns, or re-raises what the coroutine raised
CallerResult(b) ==
  /\ wOutcome[b] = "waiting"
  /\ Finished(b)
  /\ wOutcome' = [wOutcome EXCEPT ![b] =
                    IF bpc[b] = "raised" THEN "error" ELSE "ok"]
  /\ wReleasedAt' = [wReleasedAt EXCEPT ![b] = "finished"]
  /\ UNCHANGED << connVars, inbox, bcastVars, uCalls, bLoop, hostVars >>

\* future.result(timeout=5.0) gives up on a future that is not done
CallerTimeout(b) ==
  /\ wOutcome[b] = "waiting"
  /\ ~Finished(b)
  /\ bpc[b] # "cancelled"
  /\ wOutcome' = [wOutcome EXCEPT ![b] = "timeout"]
  /\ wReleasedAt' = [wReleasedAt EXCEPT ![b] = bpc[b]]
  /\ bpc' = [bpc EXCEPT ![b] = TaskAfterTimeout(@)]
  /\ tasks' = [tasks EXCEPT ![b] = SendsAfterTimeout(@)]
  /\ UNCHANGED << connVars, inbox, bSignal, bMessage, bSnapshot, uCalls, bLoop, hostVars >>

\* the I/O loop thread, and the submissions that reach it
Next ==
  \/ \E c \in Conns : HandlerConnect(c)
  \/ \E c \in Conns : ConnClosed(c)
  \/ \E c \in Conns, kind \in ExitKinds : HandlerExit(c, kind)
  \/ Submit
  \/ \E b \in Bids : BroadcastBegin(b)
  \/ \E b \in Bids, c \in Conns : SendRun(b, c)
  \/ \E b \in Bids : BroadcastResume(b)

Spec == Init /\ [][Next]_vars

\* ---------------------------------------------------------------- bridge
\* the submitting threads and the loop, for clients that connect and whose
\* transports may fail while their handlers are still serving
NextBridge ==
  \/ \E c \in Conns : HandlerConnect(c)
  \/ \E c \in Conns : ConnClosed(c)
  \/ Submit
  \/ \E b \in Bids : BroadcastBegin(b)
  \/ \E b \in Bids, c \in Conns : SendRun(b, c)
  \/ \E b \in Bids : BroadcastResume(b)
  \/ \E b \in Bids : CallerResult(b)
  \/ \E b \in Bids : CallerTimeout(b)

SpecBridge == Init /\ [][NextBridge]_vars

\* ---------------------------------------------------------------- removal
\* the removal of the finally block applied to any set and any connection
InitUnregister ==
  /\ connected_clients \in SUBSET Conns
  /\ connState = [c \in Conns |-> IF c \in connected_clients THEN "Active" ELSE "New"]
  /\ hpc = [c \in Conns |-> IF c \in connected_clients THEN "serving" ELSE "idle"]
  /\ inbox = [c \in Conns |-> <<>>]
  /\ bpc = [b \in Bids |-> "none"]
  /\ bSignal = [b \in Bids |-> NoSignal]
  /\ bMessage = [b \in Bids |-> <<>>]
  /\ bSnapshot = [b \in Bids |-> {}]
  /\ tasks = [b \in Bids |-> NoTasks]
  /\ wOutcome = [b \in Bids |-> "none"]
  /\ wReleasedAt = [b \in Bids |-> "none"]
  /\ uCalls = <<>>
  /\ bLoop = [b \in Bids |-> None]
  /\ HostUp

\* handler, line 53, on its own: self.connected_clients.remove(websocket)
Unregister(c) ==
  /\ Len(uCalls) < MaxUnregisterCalls
  /\ LET r == SetRemove(connected_clients, c)
     IN /\ connected_clients' = r.set
        /\ uCalls' = Append(uCalls, [conn |-> c, before |-> connected_clients,
                                     after |-> r.set, err |-> r.err])
  /\ UNCHANGED << connState, hpc, inbox, bcastVars, callerVars, bLoop, hostVars >>

NextUnregister == \E c \in Conns : Unregister(c)

SpecUnregister == InitUnregister /\ [][NextUnregister]_vars

\* ---------------------------------------------------------------- engine
\* the engine and its threads as the constructors leave them
HostConstructed ==
  /\ active = FALSE
  /\ async_loop = None
  /\ async_thread = None
  /\ wpc = [w \in Workers |-> "none"]
  /\ mpc = "init"
  /\ cpc = "unstarted"
  /\ stop_event = FALSE
  /\ cReport = "none"
  /\ stopCalls = 0

InitConstructed ==
  /\ connState = [c \in Conns |-> "New"]
  /\ hpc = [c \in Conns |-> "idle"]
  /\ connected_clients = {}
  /\ inbox = [c \in Conns |-> <<>>]
  /\ bpc = [b \in Bids |-> "none"]
  /\ bSignal = [b \in Bids |-> NoSignal]
  /\ bMessage = [b \in Bids |-> <<>>]
  /\ bSnapshot = [b \in Bids |-> {}]
  /\ tasks = [b \in Bids |-> NoTasks]
  /\ wOutcome = [b \in Bids |-> "none"]
  /\ wReleasedAt = [b \in Bids |-> "none"]
  /\ uCalls = <<>>
  /\ bLoop = [b \in Bids |-> None]
  /\ HostConstructed

serverVars == << connVars, inbox, bcastVars, callerVars, uCalls, bLoop >>

\* a worker thread that has been started and has not returned
Alive(w) == wpc[w] \in {"created", "binding", "running"}

\* the server of some worker holds the port
Listening == \E w \in Workers : wpc[w] = "running"

\* start(), lines 37-48, with the thread creation of lines 78-80: nothing
\* when already active, else a new daemon thread, then active = True
Start ==
  /\ IF active
     THEN UNCHANGED << active, async_thread, wpc >>
     ELSE \E w \in Workers :
            /\ wpc[w] = "none"
            /\ \A v \in Workers : v < w => wpc[v] # "none"
            /\ wpc' = [wpc EXCEPT ![w] = "created"]
            /\ async_thread' = w
            /\ active' = TRUE
  /\ UNCHANGED << async_loop, serverVars >>

\* stop(), lines 83-95: nothing when not active, else active = False
Stop ==
  /\ active' = FALSE
  /\ UNCHANGED << async_loop, async_thread, wpc, serverVars >>

\* start() and stop() called by the embedding application
EngineStart == Start /\ UNCHANGED consoleVars

EngineStop == Stop /\ UNCHANGED consoleVars

\* run_async_in_thread, lines 55-59: the new loop becomes async_loop
WorkerSetLoop(w) ==
  /\ wpc[w] = "created"
  /\ mpc # "done"
  /\ wpc' = [wpc EXCEPT ![w] = "binding"]
  /\ async_loop' = w
  /\ UNCHANGED << active, async_thread, serverVars, consoleVars >>

\* websockets.serve, line 89: the bind fails when the port is taken, by a
\* server of this engine or by anything else
StartServerOutcomes(listening) ==
  IF listening THEN {"OSError"} ELSE {"ok", "OSError"}

\* lines 70-73: a coroutine handed to a loop that ends is cancelled when its
\* task exists by then, and is never run when it does not
AfterLoopEnds(pc) == IF pc = "scheduled" THEN {"scheduled", "cancelled"} ELSE {pc}

\* run_async_in_thread, lines 61-76: start_server returns and run_forever
\* runs, or it raises, the error is logged, the loop is closed and the
\* thread returns
WorkerBind(w) ==
  /\ wpc[w] = "binding"
  /\ mpc # "done"
  /\ \E r \in StartServerOutcomes(Listening) :
       IF r = "ok"
       THEN /\ wpc' = [wpc EXCEPT ![w] = "running"]
            /\ UNCHANGED bpc
       ELSE /\ wpc' = [wpc EXCEPT ![w] = "failed"]
            /\ bpc' \in [DOMAIN bpc -> {"none", "scheduled", "gathering",
                                        "returned", "raised", "cancelled"}]
            /\ \A b \in DOMAIN bpc :
                 bpc'[b] \in (IF bLoop[b] = w THEN AfterLoopEnds(bpc[b])
                              ELSE {bpc[b]})
  /\ UNCHANGED << active, async_loop, async_thread, connVars, inbox, bSignal,
                  bMessage, bSnapshot, tasks, callerVars, uCalls, bLoop,
                  consoleVars >>

\* lines 112-117 and run_server 51-55: None is reported, a closed loop makes
\* run_coroutine_threadsafe raise RuntimeError, any other loop takes it
SubmitOutcome(loop, state) ==
  IF loop = None THEN "not_ready"
  ELSE IF state[loop] = "failed" THEN "RuntimeError"
  ELSE "scheduled"

\* broadcast_signal_sync, lines 112-117: it returns at once, raises at
\* once, or hands the coroutine over and waits
BroadcastSignalSync ==
  IF SubmitOutcome(async_loop, wpc) = "scheduled" THEN Submit
  ELSE UNCHANGED vars

\* the loop of worker w is in run_forever
Serving(w) == w # None /\ wpc[w] = "running" /\ mpc # "done"

\* websockets.serve: a handler is started for a connection accepted on the
\* listening port
Accept(c) == (Listening /\ mpc # "done") /\ HandlerConnect(c)

\* the loop the coroutine was handed to runs it
ServeBegin(b) == Serving(bLoop[b]) /\ BroadcastBegin(b)

ServeSend(b, c) == Serving(bLoop[b]) /\ SendRun(b, c)

ServeResume(b) == Serving(bLoop[b]) /\ BroadcastResume(b)

\* future.result raises CancelledError: the coroutine was cancelled
CallerCancelled(b) ==
  /\ wOutcome[b] = "waiting"
  /\ bpc[b] = "cancelled"
  /\ wOutcome' = [wOutcome EXCEPT ![b] = "cancelled"]
  /\ wReleasedAt' = [wReleasedAt EXCEPT ![b] = "finished"]
  /\ UNCHANGED << connVars, inbox, bcastVars, uCalls, bLoop, hostVars >>

NextEngine ==
  \/ EngineStart
  \/ EngineStop
  \/ \E w \in Workers : WorkerSetLoop(w)
  \/ \E w \in Workers : WorkerBind(w)
  \/ BroadcastSignalSync
  \/ \E c \in Conns : Accept(c)
  \/ \E b \in Bids : ServeBegin(b)
  \/ \E b \in Bids, c \in Conns : ServeSend(b, c)
  \/ \E b \in Bids : ServeResume(b)
  \/ \E b \in Bids : CallerResult(b)
  \/ \E b \in Bids : CallerTimeout(b)
  \/ \E b \in Bids : CallerCancelled(b)

SpecEngine == InitConstructed /\ [][NextEngine]_vars

\* ---------------------------------------------------------------- console
\* main, lines 87-88: the console thread is started
MainStartConsole ==
  /\ mpc = "init"
  /\ mpc' = "starting"
  /\ cpc' = "reading"
  /\ UNCHANGED << stop_event, cReport, stopCalls, engineVars, serverVars >>

\* main, line 90: engine.start()
MainStart ==
  /\ mpc = "starting"
  /\ Start
  /\ mpc' = "waiting"
  /\ UNCHANGED << cpc, stop_event, cReport, stopCalls >>

\* main, lines 95-96: the wait loop ends once the flag is set
MainWait ==
  /\ mpc = "waiting"
  /\ stop_event
  /\ mpc' = "finally"
  /\ UNCHANGED << cpc, stop_event, cReport, stopCalls, engineVars, serverVars >>

\* main, line 102: engine.stop()
MainStop ==
  /\ mpc = "finally"
  /\ Stop
  /\ stopCalls' = stopCalls + 1
  /\ mpc' = "stopped"
  /\ UNCHANGED << cpc, stop_event, cReport >>

\* main, lines 103-105: the flag is set and the shutdown is reported
MainExit ==
  /\ mpc = "stopped"
  /\ stop_event' = TRUE
  /\ mpc' = "done"
  /\ UNCHANGED << cpc, cReport, stopCalls, engineVars, serverVars >>

\* a step of the main thread
MainStep == MainStartConsole \/ MainStart \/ MainWait \/ MainStop \/ MainExit

\* the lines console_listener tells apart, stripped and lowercased;
\* "other" is any other line
Commands == {"exit", "quit", "help", "other"}

\* a listener that leaves the flag as it is
FlagAfterKeeps(command, flag) == flag

\* lines 30-32: exit and quit set the flag
FlagAfter(command, flag) == IF command \in {"exit", "quit"} THEN TRUE ELSE flag

\* lines 31, 35 and 67: what is printed for the line
PrintedFor(command) ==
  CASE command \in {"exit", "quit"} -> "exit"
    [] command = "help" -> "help"
    [] OTHER -> "unknown"

\* console_listener, lines 29-35 and 66-67: exit, quit, help, anything else
ConsoleCommand(command) ==
  /\ cpc = "reading"
  /\ cReport' = PrintedFor(command)
  /\ stop_event' = FlagAfter(command, stop_event)
  /\ cpc' = IF command \in {"exit", "quit"} THEN "ended" ELSE "reading"
  /\ UNCHANGED << mpc, stopCalls, engineVars, serverVars >>

\* console_listener, lines 68-71: the input has ended
ConsoleEndOfInput ==
  /\ cpc = "reading"
  /\ stop_event' = TRUE
  /\ cpc' = "ended"
  /\ UNCHANGED << mpc, cReport, stopCalls, engineVars, serverVars >>

\* console_listener, lines 36-47: test_signal is read, the signal is built
ConsoleTestSignal ==
  /\ cpc = "reading"
  /\ cpc' = "submitting"
  /\ UNCHANGED << mpc, stop_event, cReport, stopCalls, engineVars, serverVars >>

\* console_listener, lines 51 and 64-65: no loop yet
ConsoleNotReady ==
  /\ cpc = "submitting"
  /\ SubmitOutcome(async_loop, wpc) = "not_ready"
  /\ cReport' = "not_ready"
  /\ cpc' = "reading"
  /\ UNCHANGED << mpc, stop_event, stopCalls, engineVars, serverVars >>

\* console_listener, lines 52-55 on a closed loop: the RuntimeError of
\* run_coroutine_threadsafe is caught by no except clause of the thread
ConsoleSubmitRaises ==
  /\ cpc = "submitting"
  /\ SubmitOutcome(async_loop, wpc) = "RuntimeError"
  /\ cpc' = "crashed"
  /\ UNCHANGED << mpc, stop_event, cReport, stopCalls, engineVars, serverVars >>

\* console_listener, lines 52-58: the coroutine is handed over, the thread
\* waits for the future
ConsoleSubmit ==
  /\ cpc = "submitting"
  /\ SubmitOutcome(async_loop, wpc) = "scheduled"
  /\ Schedule
  /\ cpc' = "waiting"
  /\ UNCHANGED << mpc, stop_event, cReport, stopCalls >>

\* the submission the console thread made last
LastCall == CHOOSE b \in DOMAIN bpc :
              bpc[b] # "none" /\ \A a \in DOMAIN bpc : a > b => bpc[a] = "none"

\* lines 59, 61 and 63: what is printed for the way the wait ended
ReportOf(outcome) ==
  CASE outcome = "ok" -> "success"
    [] outcome = "timeout" -> "timeout"
    [] outcome = "error" -> "error"

\* console_listener, lines 58-63: the wait has ended, the outcome is printed
ConsoleReport ==
  /\ cpc = "waiting"
  /\ wOutcome[LastCall] \in {"ok", "timeout", "error"}
  /\ cReport' = ReportOf(wOutcome[LastCall])
  /\ cpc' = "reading"
  /\ UNCHANGED << mpc, stop_event, stopCalls, engineVars, serverVars >>

\* console_listener, line 58: a CancelledError is not an Exception, and is
\* caught by no except clause of the thread
ConsoleCancelled ==
  /\ cpc = "waiting"
  /\ wOutcome[LastCall] = "cancelled"
  /\ cpc' = "crashed"
  /\ UNCHANGED << mpc, stop_event, cReport, stopCalls, engineVars, serverVars >>

\* run_server: main, its console thread, the worker and its loop
NextConsole ==
  \/ MainStartConsole
  \/ MainStart
  \/ MainWait
  \/ MainStop
  \/ MainExit
  \/ \E w \in Workers : WorkerSetLoop(w)
  \/ \E w \in Workers : WorkerBind(w)
  \/ \E command \in Commands : ConsoleCommand(command)
  \/ ConsoleEndOfInput
  \/ ConsoleTestSignal
  \/ ConsoleNotReady
  \/ ConsoleSubmitRaises
  \/ ConsoleSubmit
  \/ ConsoleReport
  \/ ConsoleCancelled
  \/ \E c \in Conns : Accept(c)
  \/ \E c \in Conns : ConnClosed(c)
  \/ \E b \in Bids : ServeBegin(b)
  \/ \E b \in Bids, c \in Conns : ServeSend(b, c)
  \/ \E b \in Bids : ServeResume(b)
  \/ \E b \in Bids : CallerResult(b)
  \/ \E b \in Bids : CallerTimeout(b)
  \/ \E b \in Bids : CallerCancelled(b)

SpecConsole == InitConstructed /\ [][NextConsole]_vars

\* ---------------------------------------------------------------- order
\* asyncio runs what is ready first in, first out: the coroutine that
\* run_coroutine_threadsafe handed over first takes its first step first
BeginInOrder(b) ==
  \A a \in DOMAIN bpc : a < b => bpc[a] \notin {"none", "scheduled"}

\* a loop that runs ready send tasks in no particular order
SendInAnyOrder(b, c) == TRUE

\* a connection on which a send waits for every other pending send
SendWaitsForOthers(b, c) ==
  \A a \in DOMAIN bpc : a # b => tasks[a][c] # "pending"

\* and so do the send tasks, create_task at line 74: of two tasks that
\* send to one connection, the one created first writes its frame first
SendInOrder(b, c) ==
  \A a \in DOMAIN bpc : a < b => tasks[a][c] # "pending"

BroadcastBeginInOrder(b) == BeginInOrder(b) /\ BroadcastBegin(b)

SendRunInOrder(b, c) == SendInOrder(b, c) /\ SendRun(b, c)

\* one thread calling broadcast_signal_sync again and again: line 117 of a
\* call is reached after the call before it has returned
SubmitBackToBack ==
  /\ \A a \in DOMAIN bpc : wOutcome[a] # "waiting"
  /\ Submit

\* the server up with no client yet, and room for a pair of submissions
InitPair ==
  /\ connState = [c \in Conns |-> "New"]
  /\ hpc = [c \in Conns |-> "idle"]
  /\ connected_clients = {}
  /\ inbox = [c \in Conns |-> <<>>]
  /\ bpc = [b \in Pair |-> "none"]
  /\ bSignal = [b \in Pair |-> NoSignal]
  /\ bMessage = [b \in Pair |-> <<>>]
  /\ bSnapshot = [b \in Pair |-> {}]
  /\ tasks = [b \in Pair |-> NoTasks]
  /\ wOutcome = [b \in Pair |-> "none"]
  /\ wReleasedAt = [b \in Pair |-> "none"]
  /\ uCalls = <<>>
  /\ bLoop = [b \in Pair |-> None]
  /\ HostUp

NextBackToBack ==
  \/ \E c \in Conns : HandlerConnect(c)
  \/ \E c \in Conns : ConnClosed(c)
  \/ SubmitBackToBack
  \/ \E b \in Pair : BroadcastBeginInOrder(b)
  \/ \E b \in Pair, c \in Conns : SendRunInOrder(b, c)
  \/ \E b \in Pair : BroadcastResume(b)
  \/ \E b \in Pair : CallerResult(b)
  \/ \E b \in Pair : CallerTimeout(b)

SpecBackToBack == InitPair /\ [][NextBackToBack]_vars

\* a step of the loop thread on a submitted broadcast
LoopStep ==
  \/ \E b \in Pair : BroadcastBeginInOrder(b)
  \/ \E b \in Pair, c \in Conns : SendRunInOrder(b, c)
  \/ \E b \in Pair : BroadcastResume(b)

\* a waiting thread is released
CallerStep == \E b \in Pair : (CallerResult(b) \/ CallerTimeout(b))

\* run_forever, line 65: the loop thread goes on running what is ready
LoopFairness == WF_vars(LoopStep)

\* future.result(timeout=5.0), line 120: the wait ends, one way or another
CallerFairness == WF_vars(CallerStep)

FairBackToBack == SpecBackToBack /\ LoopFairness /\ CallerFairness

\* clients registered and open at first, whose handlers do not run while
\* the submissions are served: the registry stays as it is
InitRegistered ==
  /\ connected_clients \in SUBSET Conns
  /\ connState = [c \in Conns |-> IF c \in connected_clients THEN "Active" ELSE "New"]
  /\ hpc = [c \in Conns |-> IF c \in connected_clients THEN "serving" ELSE "idle"]
  /\ inbox = [c \in Conns |-> <<>>]
  /\ bpc = [b \in Pair |-> "none"]
  /\ bSignal = [b \in Pair |-> NoSignal]
  /\ bMessage = [b \in Pair |-> <<>>]
  /\ bSnapshot = [b \in Pair |-> {}]
  /\ tasks = [b \in Pair |-> NoTasks]
  /\ wOutcome = [b \in Pair |-> "none"]
  /\ wReleasedAt = [b \in Pair |-> "none"]
  /\ uCalls = <<>>
  /\ bLoop = [b \in Pair |-> None]
  /\ HostUp

\* threads that call broadcast_signal_sync without waiting for each other
NextConcurrent ==
  \/ \E c \in Conns : ConnClosed(c)
  \/ Submit
  \/ \E b \in Pair : BroadcastBeginInOrder(b)
  \/ \E b \in Pair, c \in Conns : SendRunInOrder(b, c)
  \/ \E b \in Pair : BroadcastResume(b)
  \/ \E b \in Pair : CallerResult(b)
  \/ \E b \in Pair : CallerTimeout(b)

SpecConcurrent == InitRegistered /\ [][NextConcurrent]_vars

FairConcurrent == SpecConcurrent /\ LoopFairness /\ CallerFairness

\* ---------------------------------------------------------------- console, in order
\* the loop of run_server serving first in, first out
ServeBeginInOrder(b) == BeginInOrder(b) /\ ServeBegin(b)

ServeSendInOrder(b, c) == SendInOrder(b, c) /\ ServeSend(b, c)

\* the loop runs the way out of a handler
ServeHandlerExit(c, kind) == (Listening /\ mpc # "done") /\ HandlerExit(c, kind)

\* run_server with clients whose connections stay open and whose handlers
\* may end
NextThreads ==
  \/ MainStartConsole
  \/ MainStart
  \/ MainWait
  \/ MainStop
  \/ MainExit
  \/ \E w \in Workers : WorkerSetLoop(w)
  \/ \E w \in Workers : WorkerBind(w)
  \/ \E command \in Commands : ConsoleCommand(command)
  \/ ConsoleEndOfInput
  \/ ConsoleTestSignal
  \/ ConsoleNotReady
  \/ ConsoleSubmitRaises
  \/ ConsoleSubmit
  \/ ConsoleReport
  \/ ConsoleCancelled
  \/ \E c \in Conns : Accept(c)
  \/ \E c \in Conns, kind \in ExitKinds : ServeHandlerExit(c, kind)
  \/ \E b \in Bids : ServeBeginInOrder(b)
  \/ \E b \in Bids, c \in Conns : ServeSendInOrder(b, c)
  \/ \E b \in Bids : ServeResume(b)
  \/ \E b \in Bids : CallerResult(b)
  \/ \E b \in Bids : CallerTimeout(b)
  \/ \E b \in Bids : CallerCancelled(b)

SpecThreads == InitConstructed /\ [][NextThreads]_vars

\* run_server with clients that stay connected
NextShutdown ==
  \/ MainStartConsole
  \/ MainStart
  \/ MainWait
  \/ MainStop
  \/ MainExit
  \/ \E w \in Workers : WorkerSetLoop(w)
  \/ \E w \in Workers : WorkerBind(w)
  \/ \E command \in Commands : ConsoleCommand(command)
  \/ ConsoleEndOfInput
  \/ ConsoleTestSignal
  \/ ConsoleNotReady
  \/ ConsoleSubmitRaises
  \/ ConsoleSubmit
  \/ ConsoleReport
  \/ ConsoleCancelled
  \/ \E c \in Conns : Accept(c)
  \/ \E b \in Bids : ServeBeginInOrder(b)
  \/ \E b \in Bids, c \in Conns : ServeSendInOrder(b, c)
  \/ \E b \in Bids : ServeResume(b)
  \/ \E b \in Bids : CallerResult(b)
  \/ \E b \in Bids : CallerTimeout(b)
  \/ \E b \in Bids : CallerCancelled(b)

SpecShutdown == InitConstructed /\ [][NextShutdown]_vars

\* the main thread is scheduled
FairShutdown == SpecShutdown /\ WF_vars(MainStep)

\* ---------------------------------------------------------------- claims
\* frames of broadcast b that connection c has received
FramesOf(b, c) == {i \in 1..Len(inbox[c]) : inbox[c][i].b = b}

\* C1: in a broadcast over at least two connections of which exactly one
\* send failed, no send to another connection is dropped: each of the others
\* keeps its send task and, once no send is pending, has received the frame.
C1_OthersStillReceive ==
  \A b \in Bids :
    (Cardinality(bSnapshot[b]) >= 2 /\ Cardinality(Failed(b)) = 1) =>
       /\ \A c \in bSnapshot[b] : tasks[b][c] \in {"pending", "ok", "failed"}
       /\ Pending(b) = {} =>
            \A c \in bSnapshot[b] \ Failed(b) : Cardinality(FramesOf(b, c)) = 1

C1_Witness ==
  \E b \in Bids :
    /\ bpc[b] = "raised"
    /\ Cardinality(bSnapshot[b]) >= 2
    /\ Cardinality(Failed(b)) = 1
    /\ Pending(b) = {}
    /\ \A c \in bSnapshot[b] \ Failed(b) : Cardinality(FramesOf(b, c)) = 1

\* C2: once a broadcast has completed, a connection whose send failed in it
\* is no longer in the registry (the broadcast itself unregistered it).
C2_FailedSendUnregistered ==
  \A b \in Bids : \A c \in Conns :
    (Finished(b) /\ tasks[b][c] = "failed") => c \notin connected_clients

\* C3: a broadcast in which some but not all sends failed completes normally
\* (it returns an outcome) and does not end by raising.
C3_PartialFailureReturns ==
  \A b \in Bids :
    (Finished(b) /\ Pending(b) = {} /\ Sent(b) # {} /\ Failed(b) # {}) =>
       bpc[b] = "returned"

\* C4: a broadcast whose sends all succeeded has delivered exactly one frame
\* to each connection registered when it started and none to any other, N
\* frames in all, each the same message and each decoding to the content of
\* the input signal.
C4_ExactlyOneFrameEach ==
  \A b \in Bids :
    bpc[b] = "returned" =>
      /\ \A c \in Conns :
           Cardinality(FramesOf(b, c)) = (IF c \in bSnapshot[b] THEN 1 ELSE 0)
      /\ \A c \in Conns : \A i \in FramesOf(b, c) :
           /\ inbox[c][i].msg = bMessage[b]
           /\ JsonLoads(inbox[c][i].msg) = AsDict(bSignal[b])

C4_Witness ==
  \E b \in Bids :
    /\ bpc[b] = "returned"
    /\ Cardinality(bSnapshot[b]) >= 2
    /\ \A c \in bSnapshot[b] : Cardinality(FramesOf(b, c)) = 1

\* C5: a broadcast that starts on an empty registry returns in that very
\* step, without an error, creates no send task, delivers nothing and
\* leaves the registry empty.
C5_EmptyRegistryNoOp ==
  [][\A b \in Bids :
       (bpc[b] = "scheduled" /\ bpc'[b] # "scheduled" /\ connected_clients = {}) =>
          /\ bpc'[b] = "returned"
          /\ tasks'[b] = NoTasks
          /\ inbox' = inbox
          /\ connected_clients' = connected_clients]_vars

C5_Witness ==
  \E b \in Bids :
    /\ bpc[b] = "returned"
    /\ bSignal[b] # NoSignal
    /\ bSnapshot[b] = {}
    /\ \A c \in Conns : FramesOf(b, c) = {}

\* C6: the connections a broadcast sends to are the registry members at the
\* step that creates its send tasks; afterwards that set never changes, a
\* step that changes the registry leaves every broadcast as it was, a frame
\* only ever reaches a member of that set, and a broadcast only raises when
\* one of its own sends has failed.
C6_FrozenTargets ==
  /\ [][\A b \in Bids :
          /\ (bpc[b] = "scheduled" /\ bpc'[b] = "gathering") =>
                Targets(b)' = connected_clients
          /\ bpc[b] \in {"gathering", "returned", "raised"} =>
                Targets(b)' = Targets(b)
          /\ connected_clients' # connected_clients =>
                (bpc'[b] = bpc[b] /\ tasks'[b] = tasks[b])]_vars
  /\ [](\A b \in Bids :
          /\ \A c \in Conns : FramesOf(b, c) # {} => c \in Targets(b)
          /\ bpc[b] = "raised" => Failed(b) # {})

C6_Witness ==
  \E b \in Bids :
    /\ bpc[b] = "returned"
    /\ Targets(b) = bSnapshot[b]
    /\ bSnapshot[b] \ connected_clients # {}
    /\ connected_clients \ bSnapshot[b] # {}
    /\ \A c \in bSnapshot[b] : Cardinality(FramesOf(b, c)) = 1
    /\ \A c \in Conns \ bSnapshot[b] : FramesOf(b, c) = {}

\* C7 as stated: a connection is in the registry exactly when it is Active.
C7_RegistryIffActive ==
  \A c \in Conns : c \in connected_clients <=> connState[c] = "Active"

\* C7 as amended: a connection is in the registry exactly while its handler
\* is between registration and cleanup; a member has been accepted and may
\* be Active or no longer open (closing or closed), and an Active connection
\* is missing from the registry only when its handler has already finished.
C7_RegistryIffServing ==
  \A c \in Conns :
    /\ c \in connected_clients <=> hpc[c] = "serving"
    /\ c \in connected_clients => connState[c] \in {"Active", "Closed"}
    /\ (connState[c] = "Active" /\ c \notin connected_clients) =>
          hpc[c] = "done"

C7_Witness ==
  \E c \in connected_clients : \E b \in Bids :
    /\ connState[c] = "Closed"
    /\ bpc[b] = "gathering"
    /\ tasks[b][c] = "failed"

\* C8: every removal is total (no error, member or not) and leaves exactly
\* the set without the connection.
C8_UnregisterTotal ==
  \A i \in 1..Len(uCalls) :
    /\ uCalls[i].err = "none"
    /\ uCalls[i].after = uCalls[i].before \ {uCalls[i].conn}

\* C9: connecting adds the connection and nothing else, the handler's way
\* out (normal end, connection closed, any other exception) removes it and
\* nothing else, so a connection whose handler has finished is not in the
\* registry and the size of the registry is the number of running handlers.
C9_ConnectDisconnectRestores ==
  /\ [][\A c \in Conns :
          /\ (hpc[c] = "idle" /\ hpc'[c] # "idle") =>
                (c \notin connected_clients
                 /\ connected_clients' = connected_clients \cup {c})
          /\ (hpc[c] = "serving" /\ hpc'[c] # "serving") =>
                (c \in connected_clients
                 /\ connected_clients' = connected_clients \ {c})]_vars
  /\ [](/\ \A c \in Conns :
            hpc[c] \notin {"idle", "serving"} => c \notin connected_clients
        /\ Cardinality(connected_clients)
             = Cardinality({c \in Conns : hpc[c] = "serving"}))

C9_Witness ==
  /\ connected_clients = {}
  /\ \E c \in Conns : hpc[c] = "done" /\ connState[c] = "Active"
  /\ \E c \in Conns : hpc[c] = "done" /\ connState[c] = "Closed"

\* C10: the step in which a waiting caller is released by the timeout leaves
\* the submitted broadcast, its send tasks and the frames already delivered
\* exactly as they were; no task is ever cancelled and no delivered frame is
\* ever taken back.
C10_TimeoutDoesNotCancel ==
  /\ [][/\ \A b \in Bids :
             (wOutcome[b] = "waiting" /\ wOutcome'[b] = "timeout") =>
                (bpc' = bpc /\ tasks' = tasks /\ inbox' = inbox)
        /\ \A c \in Conns :
             /\ Len(inbox'[c]) >= Len(inbox[c])
             /\ SubSeq(inbox'[c], 1, Len(inbox[c])) = inbox[c]]_vars
  /\ [](\A b \in Bids :
          /\ bpc[b] # "cancelled"
          /\ \A c \in Conns : tasks[b][c] # "cancelled")

C10_Witness ==
  \E b \in Bids :
    /\ wOutcome[b] = "timeout"
    /\ wReleasedAt[b] = "scheduled"
    /\ bpc[b] = "returned"
    /\ Sent(b) = bSnapshot[b]
    /\ Cardinality(Sent(b)) >= 2

\* a submission is the next one when all before it have been made
IsNext(b) ==
  /\ bpc[b] = "none"
  /\ \A a \in Pair : a < b => bpc[a] # "none"

\* C11: after a call has timed out the bridge still takes a submission
\* (from the thread that timed out or from another one), and a submission
\* made after a timeout is run by the loop to its end, its result reaches
\* its future and its caller is released.
C11_UsableAfterTimeout ==
  /\ [](\A a, b \in Pair :
          (wOutcome[a] = "timeout" /\ IsNext(b)
             /\ \A x \in Pair : wOutcome[x] # "waiting") =>
                ENABLED SubmitBackToBack)
  /\ \A b \in Pair :
       (bpc[b] = "scheduled" /\ \E a \in Pair : a < b /\ wOutcome[a] = "timeout")
          ~> (Finished(b) /\ wOutcome[b] \in {"ok", "error", "timeout"})

C11_Witness ==
  \E a, b \in Pair :
    /\ a < b
    /\ wOutcome[a] = "timeout"
    /\ wReleasedAt[a] = "gathering"
    /\ bpc[a] = "gathering"
    /\ bpc[b] = "returned"
    /\ wOutcome[b] = "ok"
    /\ Sent(b) = bSnapshot[b]
    /\ bSnapshot[b] # {}

\* C12: a call of broadcast_signal_sync hands a coroutine to a loop only
\* when the loop is available: async_loop is set, stop() has not been
\* called since the last start(), and the loop is not closed.
LoopUnavailable ==
  \/ async_loop = None
  \/ ~active
  \/ wpc[async_loop] = "failed"

C12_UnavailableSchedulesNothing ==
  [][\A b \in Bids :
       (bpc[b] = "none" /\ bpc'[b] # "none") => ~LoopUnavailable]_vars

\* C13: when stop() has returned after a start(), no worker thread is
\* alive, no loop is running and no coroutine is left scheduled or waiting
\* on the loop.
C13_StopShutsDown ==
  (~active /\ async_thread # None) =>
     /\ \A w \in Workers : ~Alive(w)
     /\ \A b \in Bids : bpc[b] \notin {"scheduled", "gathering"}

\* C14: at most one worker thread is alive, and the loop callers are given
\* is the loop of that thread.
C14_AtMostOneWorker ==
  /\ Cardinality({w \in Workers : Alive(w)}) <= 1
  /\ \A w \in Workers : (Alive(w) /\ async_loop # None) => async_loop = w

\* C15: the engine is not active when the server of its last start()
\* failed to bind.
C15_BindFailureNotActive ==
  \A w \in Workers : (wpc[w] = "failed" /\ async_thread = w) => ~active

\* C16: of two broadcasts submitted by one thread, the second after the
\* call for the first has returned (with success, an error or a timeout),
\* every connection that receives both receives the frame of the first
\* before the frame of the second.
C16_BackToBackInOrder ==
  \A a, b \in Pair : \A c \in Conns :
    a < b => \A i \in FramesOf(a, c) : \A j \in FramesOf(b, c) : i < j

C16_Witness ==
  \E c \in Conns :
    /\ wOutcome[1] = "timeout"
    /\ wReleasedAt[1] = "gathering"
    /\ wOutcome[2] = "ok"
    /\ Len(inbox[c]) = 2
    /\ inbox[c][1].b = 1
    /\ inbox[c][2].b = 2

\* connection c holds exactly one frame of broadcast b, and it is the whole
\* encoded signal of b
OneWholeFrame(b, c) ==
  /\ Cardinality(FramesOf(b, c)) = 1
  /\ \A i \in FramesOf(b, c) : inbox[c][i].msg = JsonDumps(bSignal[b])

ExternalStep ==
  \/ mpc' # mpc
  \/ cpc' # cpc
  \/ cReport' # cReport
  \/ wOutcome' # wOutcome

\* C18: the registry changes only in a step of a handler, the members are
\* taken only by the loop, in the first step of a coroutine handed to it,
\* and a step of an external thread neither changes the registry nor takes
\* its members, creates a send task or delivers a frame.
C18_RegistryOnLoopOnly ==
  [][/\ connected_clients' # connected_clients =>
          \E c \in Conns : hpc'[c] # hpc[c]
     /\ \A b \in Bids :
          (bSnapshot'[b] # bSnapshot[b] \/ tasks'[b] # tasks[b]) =>
             (bpc[b] # "none" /\ Serving(bLoop[b]))
     /\ ExternalStep =>
          /\ connected_clients' = connected_clients
          /\ bSnapshot' = bSnapshot
          /\ tasks' = tasks
          /\ inbox' = inbox]_vars

C18_Witness ==
  \E b \in Bids :
    /\ cpc = "reading"
    /\ cReport = "success"
    /\ bpc[b] = "returned"
    /\ bSnapshot[b] = connected_clients
    /\ Cardinality(bSnapshot[b]) >= 2
    /\ Sent(b) = bSnapshot[b]

\* C19: whenever the listener has dealt with a test_signal it has printed
\* the outcome and is reading the next command with the stop flag as it
\* was; it never ends in any other way than by exit, quit or end of input.
C19_ListenerSurvives ==
  [][(cpc \in {"submitting", "waiting"} /\ cpc' \notin {"submitting", "waiting"}) =>
        /\ cpc' = "reading"
        /\ cReport' \in {"success", "timeout", "error", "not_ready"}
        /\ stop_event' = stop_event]_vars

\* C20: the stop flag is never cleared; the listener has ended only with
\* the flag set; engine.stop() is called at most once, and exactly once
\* when main reports the shutdown; and once the flag is set main goes on to
\* report the shutdown.
C20_ExitStopsOnce ==
  /\ [][stop_event => stop_event']_vars
  /\ [](/\ cpc = "ended" => stop_event
        /\ stopCalls <= 1
        /\ mpc = "done" => (stopCalls = 1 /\ stop_event /\ ~active))
  /\ stop_event ~> (mpc = "done" /\ cpc = "ended" /\ stopCalls = 1)

C20_Witness ==
  /\ mpc = "done"
  /\ cpc = "ended"
  /\ cReport = "exit"
  /\ stop_event
  /\ stopCalls = 1

\* C21: a connection is in the registry exactly while its own handler is
\* between its registration and its cleanup; a step that adds or removes a
\* connection is a step of that connection's handler alone (its registration
\* or its cleanup) and changes nothing else of the registry; so the removal
\* of the cleanup finds the connection present and no handler ever ends with
\* the KeyError of a missing member.
C21_CleanupFindsMember ==
  /\ [][\A c \in Conns :
          /\ (c \in connected_clients /\ c \notin connected_clients') =>
                /\ hpc[c] = "serving" /\ hpc'[c] = "done"
                /\ \A d \in Conns \ {c} : hpc'[d] = hpc[d]
                /\ bpc' = bpc /\ tasks' = tasks
          /\ (c \notin connected_clients /\ c \in connected_clients') =>
                /\ hpc[c] = "idle" /\ hpc'[c] = "serving"
                /\ \A d \in Conns \ {c} : hpc'[d] = hpc[d]
                /\ bpc' = bpc /\ tasks' = tasks
          /\ (hpc[c] = "serving" /\ hpc'[c] # "serving") =>
                (c \in connected_clients /\ hpc'[c] = "done")]_vars
  /\ [](\A c \in Conns :
          /\ c \in connected_clients <=> hpc[c] = "serving"
          /\ hpc[c] # "KeyError")

C21_Witness ==
  \E c \in Conns, d \in Conns, b \in Bids :
    /\ hpc[c] = "done"
    /\ c \notin connected_clients
    /\ tasks[b][c] = "failed"
    /\ bpc[b] = "raised"
    /\ hpc[d] = "serving"
    /\ d \in connected_clients
    /\ Cardinality(FramesOf(b, d)) = 1

====
